---- MODULE Spec2Model ----
(***************************************************************************)
(* Model of src/programm/main.py: the A/B-test pipeline of main()          *)
(*   load_data -> preprocess_data -> calculate_metrics ->                  *)
(*   statistical_analysis.                                                 *)
(*                                                                         *)
(* A DataFrame is a record                                                 *)
(*   rows       the rows in order, each carrying its pandas index (idx),   *)
(*   dtypes     the dtype of the three columns preprocess_data coerces,    *)
(*   categories the categories of test_group once it is categorical.       *)
(* A user_id cell holds a number n; under dtype "int64" it is the integer  *)
(* n, under dtype "object" the string of n's decimal digits, so equality   *)
(* of cells is preserved by astype(str) and the dtype records the change.  *)
(* Floating point results of the statistics libraries that no branch of    *)
(* the code reads are the abstract value Float; the Shapiro-Wilk p-values, *)
(* which the code branches on, are hundredths drawn from PVals.            *)
(***************************************************************************)
EXTENDS Integers, Sequences, FiniteSets, TLC

\* ------------------------------------------------------------- bounds
\* Longest raw frame of the unconstrained input family.
MaxRows == 2
\* Most rows per group of the clean (block) input family.
MaxGroupRows == 3

\* ---------------------------------------------------------- constants
\* The two labels statistical_analysis asks the groupby for.
Groups == {"ad", "psa"}
\* A missing cell (NaN) of the test_group column and of a numeric column.
NaNLabel == "NaN"
NaN == -1
\* The significance threshold 0.05 of the branch, in hundredths.
Alpha == 5
\* Shapiro-Wilk p-values, in hundredths: below, at and above the threshold.
PVals == {4, 5, 6}
\* A floating point result that no branch of the code reads.
Float == "float"

Min(a, b) == IF a < b THEN a ELSE b

RECURSIVE SumSeq(_)
SumSeq(s) == IF s = <<>> THEN 0 ELSE Head(s) + SumSeq(Tail(s))

Range(s) == {s[i] : i \in DOMAIN s}

\* ------------------------------------------------------------- frames
\* The dtypes pandas.read_csv infers for numeric ids, text labels and
\* True/False cells.
CsvDtypes == [user_id |-> "int64", test_group |-> "object", converted |-> "bool"]

MkRow(i, u, g, c, a) ==
    [idx |-> i, user_id |-> u, test_group |-> g, converted |-> c, total_ads |-> a]

MkFrame(rows) == [rows |-> rows, dtypes |-> CsvDtypes, categories |-> {}]

\* Cells of a raw row: the label or the exposure count may be missing.
RawCells ==
    [user_id : 1..MaxRows, test_group : Groups \cup {NaNLabel},
     converted : BOOLEAN, total_ads : {NaN, 1}]

\* The raw frame of the cells f[1], ..., f[n], indexed as read_csv does.
RawFrame(f) ==
    MkFrame([i \in DOMAIN f |->
        MkRow(i, f[i].user_id, f[i].test_group, f[i].converted, f[i].total_ads)])

\* k rows of group g: d distinct users, the first c rows converted, the
\* exposure counts 1, 2, ..., k.
Block(g, k, c, d, idx0, uid0) ==
    [i \in 1..k |-> MkRow(idx0 + i, uid0 + Min(i, d), g, i <= c, i)]

BlockParams ==
    {p \in [k : 0..MaxGroupRows, c : 0..MaxGroupRows, d : 1..(MaxGroupRows + 1)] :
        /\ p.c <= p.k
        /\ p.d <= (IF p.k = 0 THEN 1 ELSE p.k)}

\* User ids are names: a raw frame numbers its users in the order of their
\* first row.
UsersInOrder(f) ==
    \A i \in DOMAIN f :
        \/ f[i].user_id = 1
        \/ \E j \in 1..(i - 1) : f[j].user_id >= f[i].user_id - 1

\* A clean frame: a block of "ad" rows followed by a block of "psa" rows of
\* other users, no missing cell.
BlockFrame(p, q) ==
    MkFrame(Block("ad", p.k, p.c, p.d, 0, 0)
            \o Block("psa", q.k, q.c, q.d, p.k, MaxGroupRows + 1))

\* ---------------------------------------------------- preprocess_data
\* data.isnull() of one row.
IsNull(r) == r.test_group = NaNLabel \/ r.total_ads = NaN

\* data.isnull().sum().sum() > 0
HasNulls(df) == \E i \in DOMAIN df.rows : IsNull(df.rows[i])

\* Mutant of DropNa: fillna(0) on the exposure count instead of dropping.
DropNaFill(df) ==
    [df EXCEPT !.rows =
        [i \in DOMAIN SelectSeq(df.rows, LAMBDA r : r.test_group # NaNLabel) |->
            LET r == SelectSeq(df.rows, LAMBDA x : x.test_group # NaNLabel)[i]
            IN  IF r.total_ads = NaN THEN [r EXCEPT !.total_ads = 0] ELSE r]]

\* data.dropna(): a new frame without the rows that have a missing cell.
DropNa(df) == [df EXCEPT !.rows = SelectSeq(df.rows, LAMBDA r : ~IsNull(r))]

\* The three astype assignments. A column that is already categorical keeps
\* its categories; otherwise they are the labels present (NaN is never one).
AsTypes(df) ==
    [df EXCEPT
        !.dtypes = [user_id |-> "object", test_group |-> "category", converted |-> "bool"],
        !.categories =
            IF df.dtypes.test_group = "category" THEN df.categories
            ELSE {r.test_group : r \in Range(df.rows)} \ {NaNLabel}]

\* data.groupby('user_id')['test_group'].nunique() for one user.
NUniqueGroups(rows, u) ==
    Cardinality({r.test_group : r \in {x \in Range(rows) : x.user_id = u}} \ {NaNLabel})

\* Mutant of ExcludeUsers: the threshold off by one.
ExcludeUsersOff(rows) ==
    {u \in {r.user_id : r \in Range(rows)} : NUniqueGroups(rows, u) > 2}

\* exclude_users = duplicates[duplicates > 1].index
ExcludeUsers(rows) ==
    {u \in {r.user_id : r \in Range(rows)} : NUniqueGroups(rows, u) > 1}

\* The frame preprocess_data returns.
PreprocessResult(df) ==
    LET d1 == IF HasNulls(df) THEN DropNa(df) ELSE df
        d2 == AsTypes(d1)
        ex == ExcludeUsers(d2.rows)
    IN  [d2 EXCEPT !.rows = SelectSeq(d2.rows, LAMBDA r : r.user_id \notin ex)]

\* The frame the caller passed, after the call: dropna rebinds the local
\* name to a new frame, otherwise the astype assignments write into the
\* caller's frame.
CallerAfter(df) == IF HasNulls(df) THEN df ELSE AsTypes(df)

\* -------------------------------------------------- calculate_metrics
RowsOf(df, g) == SelectSeq(df.rows, LAMBDA r : r.test_group = g)

\* numpy float division.
Div(n, d) ==
    IF d = 0
    THEN [kind |-> (IF n = 0 THEN "nan" ELSE "inf"), num |-> n, den |-> d]
    ELSE [kind |-> "num", num |-> n, den |-> d]

\* The keys of data.groupby('test_group'): with observed=False every
\* category of a categorical column, otherwise the labels present.
GroupKeys(df, observed) ==
    IF df.dtypes.test_group = "category" /\ ~observed
    THEN df.categories
    ELSE {r.test_group : r \in Range(df.rows)} \ {NaNLabel}

NUniqueUsers(rows) == Cardinality({r.user_id : r \in Range(rows)})

CountConverted(rows) == Len(SelectSeq(rows, LAMBDA r : r.converted))

SumAds(rows) == SumSeq([i \in DOMAIN rows |-> rows[i].total_ads])

MetricsTable(df, observed) ==
    [g \in GroupKeys(df, observed) |->
        LET rs == RowsOf(df, g)
            users == NUniqueUsers(rs)
            conv == CountConverted(rs)
            ads == SumAds(rs)
        IN  [total_users |-> users, total_converted |-> conv, total_ads |-> ads,
             conversion |-> Div(conv, users),
             ads_per_user |-> Div(ads, users),
             conversions_per_ad |-> Div(conv, ads)]]

\* ----------------------------------------------- statistical_analysis
\* group_data.get_group(g): the converted column of the rows of group g.
ConvertedOf(df, g) == [i \in DOMAIN RowsOf(df, g) |-> RowsOf(df, g)[i].converted]

\* data[data['test_group'] == g]['total_ads']
AdsOf(df, g) == [i \in DOMAIN RowsOf(df, g) |-> RowsOf(df, g)[i].total_ads]

\* np.asarray(x).astype(np.float64) of a boolean series, as the scipy and
\* statsmodels functions see it.
AsFloat(bools) == [i \in DOMAIN bools |-> IF bools[i] THEN 1 ELSE 0]

\* Series.sum() of a boolean series.
SumBool(bools) == SumSeq(AsFloat(bools))

\* scipy.stats.shapiro(x)[1]. A sample of fewer than 3 values raises
\* ValueError in the SciPy releases before 1.14 and returns NaN (with a
\* warning) from 1.14 on; otherwise the p-value is some value of PVals.
ShapiroOutcomes(x, too_small) ==
    IF Len(x) < 3
    THEN {[raised |-> (too_small = "raise"), p |-> NaN]}
    ELSE {[raised |-> FALSE, p |-> v] : v \in PVals}

\* p > q on floats: every comparison with NaN is False.
Gt(p, q) == p # NaN /\ p > q

Call(fn, args) == [fn |-> fn, args |-> args]

\* ad_shapiro > 0.05 and psa_shapiro > 0.05
BothNormal(locals) == Gt(locals.ad_shapiro, Alpha) /\ Gt(locals.psa_shapiro, Alpha)

\* Mutant of TakeElse: a second test "p <= 0.05" in place of the else.
TakeElseLe(locals) ==
    \/ (locals.ad_shapiro # NaN /\ locals.ad_shapiro <= Alpha)
    \/ (locals.psa_shapiro # NaN /\ locals.psa_shapiro <= Alpha)

\* The else of line 112: taken whenever the condition of line 109 is False.
TakeElse(locals) == ~BothNormal(locals)

\* The dictionary statistical_analysis returns.
ResultDict ==
    [conversion_test |-> [z_stat |-> Float, p_value |-> Float],
     ads_test |-> [t_stat |-> Float, p_value |-> Float],
     confidence_intervals |-> [ad_conversion |-> <<Float, Float>>,
                               psa_conversion |-> <<Float, Float>>]]

VARIABLES pc, raw, data, passed0, passed, repeated, metrics,
          locals, lib_calls, result, err

vars == <<pc, raw, data, passed0, passed, repeated, metrics,
          locals, lib_calls, result, err>>

NoMetrics == <<>>
NoResult == <<>>
NoLocals == [ad_shapiro |-> NaN, psa_shapiro |-> NaN]

\* load_data: every raw frame of at most MaxRows rows, and every clean
\* frame of two blocks.
Init ==
    /\ \/ \E n \in 0..MaxRows : \E f \in [1..n -> RawCells] :
             UsersInOrder(f) /\ raw = RawFrame(f)
       \/ \E p \in BlockParams, q \in BlockParams : raw = BlockFrame(p, q)
    /\ data = raw
    /\ passed0 = raw
    /\ passed = raw
    /\ pc = "loaded"
    /\ repeated = FALSE
    /\ metrics = NoMetrics
    /\ locals = NoLocals
    /\ lib_calls = <<>>
    /\ result = NoResult
    /\ err = "none"

\* data = preprocess_data(data): main() calls it once on the loaded frame
\* and goes on; a caller that applies it again, to the frame the first call
\* returned, ends there.
Preprocess ==
    /\ pc \in {"loaded", "preprocessed"}
    /\ passed0' = data
    /\ passed' = CallerAfter(data)
    /\ data' = PreprocessResult(data)
    /\ repeated' = (pc = "preprocessed")
    /\ pc' = IF pc = "loaded" THEN "preprocessed" ELSE "preprocessed_again"
    /\ UNCHANGED <<raw, metrics, locals, lib_calls, result, err>>

\* metrics = calculate_metrics(data). The default of groupby's observed
\* depends on the pandas release.
CalculateMetrics ==
    /\ pc = "preprocessed"
    /\ \E observed \in BOOLEAN : metrics' = MetricsTable(data, observed)
    /\ pc' = "metrics"
    /\ UNCHANGED <<raw, data, passed0, passed, repeated, locals, lib_calls, result, err>>

\* Lines 91-93: get_group raises KeyError for a label without rows.
SA_GetGroups ==
    /\ pc = "metrics"
    /\ IF \E g \in Groups : RowsOf(data, g) = <<>>
       THEN pc' = "failed" /\ err' = "KeyError"
       ELSE pc' = "Start" /\ err' = err
    /\ UNCHANGED <<raw, data, passed0, passed, repeated, metrics, locals, lib_calls, result>>

\* Lines 96-97: shapiro on the converted column of each group. Equal
\* samples have equal p-values.
SA_NormalityCheck ==
    /\ pc = "Start"
    /\ LET ad == AsFloat(ConvertedOf(data, "ad"))
           psa == AsFloat(ConvertedOf(data, "psa"))
       IN  \E too_small \in {"raise", "nan"} :
           \E a \in ShapiroOutcomes(ad, too_small), p \in ShapiroOutcomes(psa, too_small) :
              /\ ad = psa => a = p
              /\ IF a.raised
                 THEN /\ lib_calls' = lib_calls \o <<Call("shapiro", <<ad>>)>>
                      /\ pc' = "failed" /\ err' = "ValueError"
                      /\ locals' = locals
                 ELSE IF p.raised
                 THEN /\ lib_calls' = lib_calls \o
                            <<Call("shapiro", <<ad>>), Call("shapiro", <<psa>>)>>
                      /\ pc' = "failed" /\ err' = "ValueError"
                      /\ locals' = [locals EXCEPT !.ad_shapiro = a.p]
                 ELSE /\ lib_calls' = lib_calls \o
                            <<Call("shapiro", <<ad>>), Call("shapiro", <<psa>>)>>
                      /\ pc' = "NormalityCheck" /\ err' = err
                      /\ locals' = [ad_shapiro |-> a.p, psa_shapiro |-> p.p]
    /\ UNCHANGED <<raw, data, passed0, passed, repeated, metrics, result>>

\* Lines 100-103: proportions_ztest(count, nobs).
SA_ProportionsZTest ==
    /\ pc = "NormalityCheck"
    /\ lib_calls' = lib_calls \o
          <<Call("proportions_ztest",
                 <<<<SumBool(ConvertedOf(data, "ad")), SumBool(ConvertedOf(data, "psa"))>>,
                   <<Len(ConvertedOf(data, "ad")), Len(ConvertedOf(data, "psa"))>>>>)>>
    /\ pc' = "ZTest"
    /\ UNCHANGED <<raw, data, passed0, passed, repeated, metrics, locals, result, err>>

\* Lines 106-111: the Welch t-test branch.
SA_TTest ==
    /\ pc = "ZTest"
    /\ BothNormal(locals)
    /\ lib_calls' = lib_calls \o
          <<Call("ttest_ind", <<AdsOf(data, "ad"), AdsOf(data, "psa")>>)>>
    /\ pc' = "ParametricTest"
    /\ UNCHANGED <<raw, data, passed0, passed, repeated, metrics, locals, result, err>>

\* Lines 106-114: the Mann-Whitney branch.
SA_MannWhitney ==
    /\ pc = "ZTest"
    /\ TakeElse(locals)
    /\ lib_calls' = lib_calls \o
          <<Call("mannwhitneyu", <<AdsOf(data, "ad"), AdsOf(data, "psa")>>)>>
    /\ pc' = "NonParametricTest"
    /\ UNCHANGED <<raw, data, passed0, passed, repeated, metrics, locals, result, err>>

\* Lines 117-127: the two confidence intervals and the returned dictionary.
SA_Return ==
    /\ pc \in {"ParametricTest", "NonParametricTest"}
    /\ lib_calls' = lib_calls \o
          <<Call("proportion_confint",
                 <<<<SumBool(ConvertedOf(data, "ad")), Len(ConvertedOf(data, "ad"))>>>>),
            Call("proportion_confint",
                 <<<<SumBool(ConvertedOf(data, "psa")), Len(ConvertedOf(data, "psa"))>>>>)>>
    /\ result' = ResultDict
    /\ pc' = "Done"
    /\ UNCHANGED <<raw, data, passed0, passed, repeated, metrics, locals, err>>

StatisticalAnalysis ==
    \/ SA_GetGroups
    \/ SA_NormalityCheck
    \/ SA_ProportionsZTest
    \/ SA_TTest
    \/ SA_MannWhitney
    \/ SA_Return

Next == Preprocess \/ CalculateMetrics \/ StatisticalAnalysis

Spec == Init /\ [][Next]_vars

\* Python runs statistical_analysis to its return or to the exception.
FairSpec == Spec /\ WF_vars(StatisticalAnalysis)

\* ------------------------------------------------------------- claims
AfterPreprocess == pc # "loaded"
MetricsReturned == pc \notin {"loaded", "preprocessed", "preprocessed_again"}
NormalityPassed ==
    pc \in {"NormalityCheck", "ZTest", "ParametricTest", "NonParametricTest", "Done"}
TestRun == pc \in {"ParametricTest", "NonParametricTest", "Done"}

\* Both groups have the 3 observations shapiro needs.
SamplesAccepted == \A g \in Groups : Len(RowsOf(data, g)) >= 3

CallsOf(fn) == SelectSeq(lib_calls, LAMBDA c : c.fn = fn)
UsersOf(rows) == {r.user_id : r \in Range(rows)}
RowsOfUser(rows, u) == SelectSeq(rows, LAMBDA r : r.user_id = u)
CleanRows(df) == SelectSeq(df.rows, LAMBDA r : ~IsNull(r))

RECURSIVE SubSeqOf(_, _)
SubSeqOf(o, s) ==
    IF o = <<>> THEN TRUE
    ELSE IF s = <<>> THEN FALSE
    ELSE IF Head(o) = Head(s) THEN SubSeqOf(Tail(o), Tail(s))
    ELSE SubSeqOf(o, Tail(s))

\* Users whose rows without a missing cell all carry the label g.
UsersOnlyIn(df, g) ==
    {u \in UsersOf(CleanRows(df)) :
        {r.test_group : r \in Range(RowsOfUser(CleanRows(df), u))} = {g}}

C2_ConvertedAtMostUsers ==
    MetricsReturned =>
        \A g \in DOMAIN metrics :
            /\ metrics[g].total_converted <= metrics[g].total_users
            /\ metrics[g].conversion.kind = "num" =>
                  metrics[g].conversion.num <= metrics[g].conversion.den

\* C3: the exposure test is chosen from the normality p-values of each
\* group's total_ads values: shapiro is applied to them, and the Welch test
\* runs iff both p-values are strictly above 0.05, Mann-Whitney otherwise
\* (stated for groups of at least 3 observations, which shapiro accepts).
C3_ChosenFromExposureNormality ==
    /\ (NormalityPassed /\ SamplesAccepted) =>
        /\ Len(CallsOf("shapiro")) = 2
        /\ CallsOf("shapiro")[1].args = <<AdsOf(data, "ad")>>
        /\ CallsOf("shapiro")[2].args = <<AdsOf(data, "psa")>>
    /\ (TestRun /\ SamplesAccepted) =>
        /\ CallsOf("ttest_ind") # <<>> <=>
              (locals.ad_shapiro > Alpha /\ locals.psa_shapiro > Alpha)
        /\ CallsOf("mannwhitneyu") # <<>> <=>
              ~(locals.ad_shapiro > Alpha /\ locals.psa_shapiro > Alpha)

MethodUsed(res) ==
    IF "method_used" \in DOMAIN res.ads_test THEN res.ads_test.method_used ELSE "absent"

\* C4: the returned result carries method_used, "parametric" exactly when
\* the Welch branch ran and "non_parametric" exactly when Mann-Whitney ran
\* (stated for groups of at least 3 observations, which shapiro accepts).
C4_MethodRecorded ==
    (pc = "Done" /\ SamplesAccepted) =>
        /\ MethodUsed(result) = "parametric" <=> CallsOf("ttest_ind") # <<>>
        /\ MethodUsed(result) = "non_parametric" <=> CallsOf("mannwhitneyu") # <<>>

\* C5: when a group has no user in the (non-empty) preprocessed records,
\* calculate_metrics fails with InsufficientDataError and returns no table.
C5_ZeroUsersFails ==
    (MetricsReturned /\ data.rows # <<>> /\ \E g \in Groups : NUniqueUsers(RowsOf(data, g)) = 0) =>
        (err = "InsufficientDataError" /\ metrics = NoMetrics)

\* C6: when a group has fewer than 3 exposure observations the exposure test
\* halts at the normality check: no test is run and nothing is returned.
C6_SmallSampleHalts ==
    (\E g \in Groups : Len(AdsOf(data, g)) < 3) =>
        /\ ~NormalityPassed
        /\ CallsOf("ttest_ind") = <<>> /\ CallsOf("mannwhitneyu") = <<>>
        /\ result = NoResult

\* C7: the (non-empty) frame the caller passed to preprocess_data is the same
\* after the call: same rows, same values, same dtypes.
C7_CallerUnchanged == (AfterPreprocess /\ passed0.rows # <<>>) => passed = passed0

\* C8: the (successes, observations) given to proportions_ztest and to
\* proportion_confint are each group's (total_converted, total_users) of
\* calculate_metrics on the same records (stated for groups of at least 3
\* rows, which shapiro accepts before the z-test is reached).
C8_SameCountsAsMetrics ==
    SamplesAccepted =>
    /\ \A i \in DOMAIN CallsOf("proportions_ztest") :
          CallsOf("proportions_ztest")[i].args =
              << <<metrics["ad"].total_converted, metrics["psa"].total_converted>>,
                 <<metrics["ad"].total_users, metrics["psa"].total_users>> >>
    /\ pc = "Done" =>
          /\ CallsOf("proportion_confint")[1].args =
                << <<metrics["ad"].total_converted, metrics["ad"].total_users>> >>
          /\ CallsOf("proportion_confint")[2].args =
                << <<metrics["psa"].total_converted, metrics["psa"].total_users>> >>

C9_Step ==
    /\ pc = "Start" => pc' \in {"NormalityCheck", "failed"}
    /\ pc = "NormalityCheck" => pc' = "ZTest"
    /\ pc = "ZTest" => pc' \in {"ParametricTest", "NonParametricTest"}
    /\ pc \in {"ParametricTest", "NonParametricTest"} => pc' = "Done"
    /\ pc \in {"Done", "failed"} => FALSE

C9_Calls ==
    /\ Len(CallsOf("shapiro")) <= 2
    /\ Len(CallsOf("proportions_ztest")) <= 1
    /\ Len(CallsOf("proportion_confint")) <= 2
    /\ Len(CallsOf("ttest_ind")) + Len(CallsOf("mannwhitneyu")) =
          (IF TestRun THEN 1 ELSE 0)
    /\ pc = "ParametricTest" <=> (~(pc = "Done") /\ CallsOf("ttest_ind") # <<>>)
    /\ pc = "NonParametricTest" <=> (~(pc = "Done") /\ CallsOf("mannwhitneyu") # <<>>)
    /\ TestRun =>
          /\ Len(lib_calls) >= 4
          /\ lib_calls[1].fn = "shapiro" /\ lib_calls[2].fn = "shapiro"
          /\ lib_calls[4].fn \in {"ttest_ind", "mannwhitneyu"}

\* C9: every run of the exposure test goes Start -> NormalityCheck ->
\* (ParametricTest | NonParametricTest) -> Done: both normality checks come
\* before any test, exactly one of the two tests is run once the normality
\* check has succeeded, no library call is repeated, and the run reaches Done.
C9_ExposureTestStateMachine ==
    /\ [][C9_Step]_vars
    /\ []C9_Calls
    /\ (pc = "NormalityCheck") ~> (pc = "Done")

\* C9 witnesses: a run that took the Welch branch and reached Done.
C9_Witness ==
    /\ pc = "Done"
    /\ CallsOf("ttest_ind") # <<>>
    /\ CallsOf("mannwhitneyu") = <<>>

\* C10: preprocess_data only filters (its output is a sub-sequence of its
\* input rows in their order) and a second pass over its own output returns
\* the same rows.
C10_FilterIdempotent ==
    AfterPreprocess =>
        /\ SubSeqOf(data.rows, passed0.rows)
        /\ repeated => data.rows = passed0.rows

\* C10 witness: the second pass ran on an output from which the first pass
\* had dropped a missing-cell row of a user who was labelled in both groups
\* and whose other row it kept.
C10_Witness ==
    /\ repeated
    /\ data.rows # <<>>
    /\ \E u \in UsersOf(data.rows) : NUniqueGroups(raw.rows, u) > 1
====
